---- MODULE Spec2Model ----
(***************************************************************************)
(* capnp-json: the annotation resolver (src/capnp-json/src/lib.rs), the    *)
(* TypeScript declaration generator (src/capnp-json/src/typescript.rs) and *)
(* the JSON serializer / deserializer (serialize.rs and deserialize.rs,    *)
(* modelled from the specification and from the assertions of              *)
(* src/capnp-json/test/src/lib.rs).                                        *)
(*                                                                         *)
(* Strings are sequences of one-character strings, so that the character   *)
(* loops of the code (identifier derivation, hex and base64 text) are      *)
(* computed as the code computes them.                                     *)
(***************************************************************************)
EXTENDS Integers, Sequences, FiniteSets, TLC

VARIABLES mode, cfg, opts, ctx, last, subject, json, target, outcome

vars == <<mode, cfg, opts, ctx, last, subject, json, target, outcome>>

(***************************************************************************)
(* Characters                                                              *)
(***************************************************************************)
LowerChars ==
    <<"a","b","c","d","e","f","g","h","i","j","k","l","m",
      "n","o","p","q","r","s","t","u","v","w","x","y","z">>

UpperChars ==
    <<"A","B","C","D","E","F","G","H","I","J","K","L","M",
      "N","O","P","Q","R","S","T","U","V","W","X","Y","Z">>

DigitChars == <<"0","1","2","3","4","5","6","7","8","9">>

PunctChars == {":", ".", "-", "_", "/", " ", "+", "="}

Range(s) == {s[i] : i \in DOMAIN s}

\* One non-ASCII letter (U+00E9), written as a token of its own.
EAcute == "<U+00E9>"

\* char::is_ascii
IsAsciiChar(c) ==
    c \in Range(LowerChars) \cup Range(UpperChars) \cup Range(DigitChars) \cup PunctChars

\* str::is_ascii
IsAscii(name) == \A i \in DOMAIN name : IsAsciiChar(name[i])

\* char::is_alphanumeric
IsAlphanumeric(c) ==
    c \in Range(LowerChars) \cup Range(UpperChars) \cup Range(DigitChars) \cup {EAcute}

\* char::to_ascii_uppercase
ToAsciiUppercase(c) ==
    IF c \in Range(LowerChars)
    THEN UpperChars[CHOOSE i \in DOMAIN LowerChars : LowerChars[i] = c]
    ELSE c

(***************************************************************************)
(* Option and Result                                                       *)
(***************************************************************************)
None == [some |-> FALSE]

Some(x) == [some |-> TRUE, v |-> x]

Ok(x) == [ok |-> TRUE, v |-> x]

Err(e) == [ok |-> FALSE, e |-> e]

(***************************************************************************)
(* Annotations (json.capnp) and the resolver of lib.rs                     *)
(***************************************************************************)
NameAnnot(s) == [id |-> "name", s |-> s]

HexAnnot == [id |-> "hex"]

Base64Annot == [id |-> "base64"]

\* An annotation of some other schema: an id the resolver does not know.
OtherAnnot == [id |-> "other"]

FlattenAnnot(prefix) == [id |-> "flatten", prefix |-> prefix]

DiscriminatorAnnot(name, valueName) ==
    [id |-> "discriminator", name |-> name, valueName |-> valueName]

\* JsonAnnots::default()
DefaultJsonAnnots == [name |-> None, data_format |-> None, flatten |-> None]

\* The match with an annotation of an unknown id taken for hex.
ReadAnnotUnknownAsHex(out, annot) ==
    CASE annot.id = "name" -> [out EXCEPT !.name = Some(annot.s)]
      [] annot.id = "flatten" -> out
      [] annot.id = "base64" -> [out EXCEPT !.data_format = Some("Base64")]
      [] OTHER -> [out EXCEPT !.data_format = Some("Hex")]

\* One iteration of the loop of read_annots: the match on annot.get_id().
ReadAnnot(out, annot) ==
    CASE annot.id = "name" -> [out EXCEPT !.name = Some(annot.s)]
      [] annot.id = "flatten" -> out
      [] annot.id = "base64" -> [out EXCEPT !.data_format = Some("Base64")]
      [] annot.id = "hex" -> [out EXCEPT !.data_format = Some("Hex")]
      [] OTHER -> out

\* The loop run from the last annotation to the first: the first occurrence
\* of a kind is assigned last.
RECURSIVE ReadAnnotsReversed(_, _, _)
ReadAnnotsReversed(list, i, out) ==
    IF i > Len(list) THEN out
    ELSE ReadAnnot(ReadAnnotsReversed(list, i + 1, out), list[i])

RECURSIVE ReadAnnotsFrom(_, _, _)
ReadAnnotsFrom(list, i, out) ==
    IF i > Len(list) THEN out
    ELSE ReadAnnotsFrom(list, i + 1, ReadAnnot(out, list[i]))

read_annots(list) == ReadAnnotsFrom(list, 1, DefaultJsonAnnots)

\* AnnotationList::find: the first annotation with the id.
HasAnnot(list, id) == \E i \in DOMAIN list : list[i].id = id

FindAnnot(list, id) ==
    list[CHOOSE i \in DOMAIN list :
            /\ list[i].id = id
            /\ \A j \in DOMAIN list : list[j].id = id => i <= j]

\* DiscriminatorOptions::default()
DefaultDiscriminatorOptions == [name |-> <<>>, value_name |-> None]

\* The resolution without the struct-level name annotation.
read_discriminator_declared(schema) ==
    IF ~HasAnnot(schema.annots, "discriminator") THEN DefaultDiscriminatorOptions
    ELSE LET reader == FindAnnot(schema.annots, "discriminator")
         IN  [name |-> IF reader.name.some THEN reader.name.v ELSE schema.name,
              value_name |-> reader.valueName]

read_discriminator(schema) ==
    IF ~HasAnnot(schema.annots, "discriminator") THEN DefaultDiscriminatorOptions
    ELSE LET reader == FindAnnot(schema.annots, "discriminator")
             name == IF reader.name.some THEN reader.name.v
                     ELSE IF HasAnnot(schema.annots, "name")
                          THEN FindAnnot(schema.annots, "name").s
                          ELSE schema.name
         IN  [name |-> name, value_name |-> reader.valueName]

\* The resolver without the override: the declared name whatever the
\* annotations say.
field_name_declared(field, annots) == field.name

field_name(field, annots) ==
    IF annots.name.some THEN annots.name.v ELSE field.name

enumerant_value(enumerant) ==
    LET annots == read_annots(enumerant.annots)
    IN  IF annots.name.some THEN annots.name.v ELSE enumerant.name

(***************************************************************************)
(* The schemas: what the reflection layer answers for each node.  The      *)
(* annotations of three nodes are inputs, chosen in Init (cfg).            *)
(***************************************************************************)
TVoid == [k |-> "Void"]

TBool == [k |-> "Bool"]

TInt == [k |-> "Int32"]

TText == [k |-> "Text"]

TData == [k |-> "Data"]

TAnyPointer == [k |-> "AnyPointer"]

TStruct(sid) == [k |-> "Struct", sid |-> sid, group |-> FALSE]

\* A group: a struct stored inline in its parent, never a null pointer.
TGroup(sid) == [k |-> "Struct", sid |-> sid, group |-> TRUE]

TEnum(eid) == [k |-> "Enum", eid |-> eid]

TList(elem) == [k |-> "List", elem |-> elem]

Field(name, annots, type, codeOrder, inUnion) ==
    [name |-> name, annots |-> annots, type |-> type,
     codeOrder |-> codeOrder, inUnion |-> inUnion]

StructIds == {"Leaf", "U", "Foo", "FooBar", "Node", "Outer", "Bad", "Ping", "Pong"}

\* struct Leaf { b @1 :Text; a @0 :Int32; d @2 :Data; }  (b is declared before a)
LeafSchema ==
    [display |-> <<"t", ":", "L", "e", "a", "f">>,
     name |-> <<"L", "e", "a", "f">>,
     annots |-> <<>>,
     fields |-> <<Field(<<"a">>, cfg.nameAnn, TInt, 1, FALSE),
                  Field(<<"b">>, <<>>, TText, 0, FALSE),
                  Field(<<"d">>, cfg.dataAnn, TData, 2, FALSE)>>]

\* struct U { common @0 :Text; union { unset @1 :Void; variant @2 :Int32;
\*            other @3 :Int32; cap @4 :AnyPointer; } }
USchema ==
    [display |-> <<"t", ":", "U">>,
     name |-> <<"U">>,
     annots |-> cfg.discAnn,
     fields |-> <<Field(<<"c", "o", "m", "m", "o", "n">>, <<>>, TText, 0, FALSE),
                  Field(<<"u", "n", "s", "e", "t">>, <<>>, TVoid, 1, TRUE),
                  Field(<<"v", "a", "r", "i", "a", "n", "t">>, cfg.nameAnn, TInt, 2, TRUE),
                  Field(<<"o", "t", "h", "e", "r">>, <<>>, TInt, 3, TRUE),
                  Field(<<"c", "a", "p">>, <<>>, TAnyPointer, 4, TRUE)>>]

\* struct Foo { union { bar :group { hs @0 :List(Data) $Json.hex; }; baz @1 :Void; }
\*              y @3 :Text; x @2 :Int32; p @4 :AnyPointer; }  (y is declared before x)
FooSchema ==
    [display |-> <<"t", ":", "F", "o", "o">>,
     name |-> <<"F", "o", "o">>,
     annots |-> <<>>,
     fields |-> <<Field(<<"b", "a", "r">>, <<>>, TGroup("FooBar"), 0, TRUE),
                  Field(<<"b", "a", "z">>, <<>>, TVoid, 1, TRUE),
                  Field(<<"x">>, <<>>, TInt, 3, FALSE),
                  Field(<<"y">>, <<>>, TText, 2, FALSE),
                  Field(<<"p">>, <<>>, TAnyPointer, 4, FALSE)>>]

\* The group Foo.bar: a struct node of its own, named after its field.
FooBarSchema ==
    [display |-> <<"t", ":", "F", "o", "o", ".", "b", "a", "r">>,
     name |-> <<"b", "a", "r">>,
     annots |-> <<>>,
     fields |-> <<Field(<<"h", "s">>, <<HexAnnot>>, TList(TData), 0, FALSE)>>]

\* struct Node { next @0 :Node; e @1 :E; }
NodeSchema ==
    [display |-> <<"t", ":", "N", "o", "d", "e">>,
     name |-> <<"N", "o", "d", "e">>,
     annots |-> <<>>,
     fields |-> <<Field(<<"n", "e", "x", "t">>, <<>>, TStruct("Node"), 0, FALSE),
                  Field(<<"e">>, <<>>, TEnum("E"), 1, FALSE)>>]

\* struct Outer { items @0 :List(Leaf); bad @1 :Bad; }
OuterSchema ==
    [display |-> <<"t", ":", "O", "u", "t", "e", "r">>,
     name |-> <<"O", "u", "t", "e", "r">>,
     annots |-> <<>>,
     fields |-> <<Field(<<"i", "t", "e", "m", "s">>, <<>>, TList(TStruct("Leaf")), 0, FALSE),
                  Field(<<"b", "a", "d">>, <<>>, TStruct("Bad"), 1, FALSE)>>]

\* A struct whose display name is not ASCII.
BadSchema ==
    [display |-> <<"t", ":", "B", EAcute>>,
     name |-> <<"B", EAcute>>,
     annots |-> <<>>,
     fields |-> <<Field(<<"x">>, <<>>, TInt, 0, FALSE)>>]

\* struct Ping { pong @0 :Pong; }  struct Pong { ping @0 :Ping; }
PingSchema ==
    [display |-> <<"t", ":", "P", "i", "n", "g">>,
     name |-> <<"P", "i", "n", "g">>,
     annots |-> <<>>,
     fields |-> <<Field(<<"p", "o", "n", "g">>, <<>>, TStruct("Pong"), 0, FALSE)>>]

PongSchema ==
    [display |-> <<"t", ":", "P", "o", "n", "g">>,
     name |-> <<"P", "o", "n", "g">>,
     annots |-> <<>>,
     fields |-> <<Field(<<"p", "i", "n", "g">>, <<>>, TStruct("Ping"), 0, FALSE)>>]

StructSchema(sid) ==
    CASE sid = "Leaf" -> LeafSchema
      [] sid = "U" -> USchema
      [] sid = "Foo" -> FooSchema
      [] sid = "FooBar" -> FooBarSchema
      [] sid = "Node" -> NodeSchema
      [] sid = "Outer" -> OuterSchema
      [] sid = "Bad" -> BadSchema
      [] sid = "Ping" -> PingSchema
      [] sid = "Pong" -> PongSchema

Enumerant(name, annots) == [name |-> name, annots |-> annots]

\* enum E { foo @0; bar @1; }
EnumSchema(eid) ==
    [display |-> <<"t", ":", "E">>,
     enumerants |-> <<Enumerant(<<"f", "o", "o">>, <<>>),
                      Enumerant(<<"b", "a", "r">>, cfg.nameAnn)>>]

\* StructSchema::get_non_union_fields / get_union_fields / has_union_fields
get_non_union_fields(schema) == SelectSeq(schema.fields, LAMBDA f : ~f.inUnion)

get_union_fields(schema) == SelectSeq(schema.fields, LAMBDA f : f.inUnion)

has_union_fields(schema) == \E i \in DOMAIN schema.fields : schema.fields[i].inUnion

(***************************************************************************)
(* typescript.rs: TypeIdent, Item                                          *)
(***************************************************************************)
IdNull == [k |-> "Null"]

IdBool == [k |-> "Bool"]

IdNumber == [k |-> "Number"]

IdString == [k |-> "String"]

IdBase64Data == [k |-> "Base64Data"]

IdHexData == [k |-> "HexData"]

IdLiteral(s) == [k |-> "Literal", n |-> s]

IdEnum(s) == [k |-> "Enum", n |-> s]

IdStruct(s) == [k |-> "Struct", n |-> s]

IdUnion(variants) == [k |-> "Union", vs |-> variants]

IdArrayOf(elem) == [k |-> "ArrayOf", elem |-> elem]

\* Item::Alias and Item::Interface.  by is the ident local to the visit that
\* pushed the item (a history field: the code does not store it).
ItemAlias(ident, value, by) ==
    [item |-> "Alias", ident |-> ident, value |-> value, by |-> by]

ItemInterface(ident, fields, by) ==
    [item |-> "Interface", ident |-> ident, fields |-> fields, by |-> by]

\* TypeIdent::for_data
for_data(format) == IF format = "Hex" THEN IdHexData ELSE IdBase64Data

\* The loop of capnp_display_name_to_ident.
RECURSIVE IdentLoop(_, _, _, _)
IdentLoop(name, i, ident, uppercase_next) ==
    IF i > Len(name) THEN ident
    ELSE IF IsAlphanumeric(name[i])
         THEN IF uppercase_next
              THEN IdentLoop(name, i + 1, Append(ident, ToAsciiUppercase(name[i])), FALSE)
              ELSE IdentLoop(name, i + 1, Append(ident, name[i]), FALSE)
         ELSE IdentLoop(name, i + 1, ident, TRUE)

capnp_display_name_to_ident(name) ==
    IF ~IsAscii(name) THEN Err("unimplemented: non-ascii names are unsupported")
    ELSE Ok(IdentLoop(name, 1, <<>>, TRUE))

from_struct(schema) ==
    LET r == capnp_display_name_to_ident(schema.display)
    IN  IF r.ok THEN Ok(IdStruct(r.v)) ELSE r

from_union_variant(schema, variant) ==
    LET r == capnp_display_name_to_ident(schema.display)
    IN  IF ~r.ok THEN r
        ELSE Ok(IdStruct(r.v \o <<ToAsciiUppercase(Head(variant.name))>>
                             \o Tail(variant.name)))

from_enum(schema) ==
    LET r == capnp_display_name_to_ident(schema.display)
    IN  IF r.ok THEN Ok(IdEnum(r.v)) ELSE r

\* impl fmt::Display for TypeIdent
RECURSIVE Display(_)
RECURSIVE DisplayUnion(_, _)
DisplayUnion(variants, i) ==
    IF i > Len(variants) THEN <<>>
    ELSE (IF i > 1 THEN <<" ", "|", " ">> ELSE <<>>)
         \o Display(variants[i]) \o DisplayUnion(variants, i + 1)

Display(t) ==
    CASE t.k = "Null" -> <<"n", "u", "l", "l">>
      [] t.k = "Bool" -> <<"b", "o", "o", "l", "e", "a", "n">>
      [] t.k = "Number" -> <<"n", "u", "m", "b", "e", "r">>
      [] t.k = "String" -> <<"s", "t", "r", "i", "n", "g">>
      [] t.k = "Base64Data" -> <<"B", "a", "s", "e", "6", "4", "D", "a", "t", "a">>
      [] t.k = "HexData" -> <<"H", "e", "x", "D", "a", "t", "a">>
      [] t.k = "Enum" -> t.n
      [] t.k = "Struct" -> t.n
      [] t.k = "Literal" -> t.n
      [] t.k = "Union" -> DisplayUnion(t.vs, 1)
      [] t.k = "ArrayOf" -> <<"A", "r", "r", "a", "y", "<">> \o Display(t.elem) \o <<">">>

(***************************************************************************)
(* typescript.rs: Context                                                  *)
(***************************************************************************)
\* Context::new.  seen is a history field the code does not store: the
\* identities in the order they were inserted into visited.
NewContext == [items |-> <<>>, visited |-> {}, seen |-> <<>>]

\* self.visited.insert(ident)
Insert(c, ident) == [c EXCEPT !.visited = @ \cup {ident}, !.seen = Append(@, ident)]

Push(c, item) == [c EXCEPT !.items = Append(@, item)]

Visit(c, r) == [ctx |-> c, r |-> r]

\* BTreeMap::insert and into_values().collect(): the values by ascending key.
MapInsert(map, key, value) ==
    [x \in DOMAIN map \cup {key} |-> IF x = key THEN value ELSE map[x]]

\* The values by descending key: the order the declarations would list the
\* fields in if the map were drained from its greatest key.
RECURSIVE IntoValuesDescending(_)
IntoValuesDescending(map) ==
    IF DOMAIN map = {} THEN <<>>
    ELSE LET key == CHOOSE x \in DOMAIN map : \A y \in DOMAIN map : x >= y
         IN  <<map[key]>> \o IntoValuesDescending([x \in DOMAIN map \ {key} |-> map[x]])

RECURSIVE IntoValues(_)
IntoValues(map) ==
    IF DOMAIN map = {} THEN <<>>
    ELSE LET key == CHOOSE x \in DOMAIN map : \A y \in DOMAIN map : x <= y
         IN  <<map[key]>> \o IntoValues([x \in DOMAIN map \ {key} |-> map[x]])

\* visit_data without the lookup in visited: the alias pushed at every use.
visit_data_always(c, field) ==
    IF ~field.data_format.some THEN Visit(c, Ok(None))
    ELSE Visit(Push(Insert(c, for_data(field.data_format.v)),
                    ItemAlias(for_data(field.data_format.v), IdString,
                              for_data(field.data_format.v))),
               Ok(Some(for_data(field.data_format.v))))

visit_data(c, field) ==
    IF ~field.data_format.some THEN Visit(c, Ok(None))
    ELSE LET ident == for_data(field.data_format.v)
         IN  IF ident \notin c.visited
             THEN Visit(Push(Insert(c, ident),
                             ItemAlias(ident, IdString, ident)),
                        Ok(Some(ident)))
             ELSE Visit(c, Ok(Some(ident)))

\* The enumerant loop of visit_enum.
RECURSIVE EnumerantLoop(_, _)
EnumerantLoop(enumerants, i) ==
    IF i > Len(enumerants) THEN <<>>
    ELSE <<IdLiteral(enumerant_value(enumerants[i]))>> \o EnumerantLoop(enumerants, i + 1)

visit_enum(c, schema) ==
    LET identR == from_enum(schema)
    IN  IF ~identR.ok THEN Visit(c, identR)
        ELSE IF identR.v \in c.visited THEN Visit(c, identR)
        ELSE LET ident == identR.v
                 c1 == Insert(c, ident)
                 literals == EnumerantLoop(schema.enumerants, 1)
                 variants == IF opts.on_enumerant_not_in_schema = "UseNumber"
                             THEN Append(literals, IdNumber)
                             ELSE literals
             IN  Visit(Push(c1, ItemAlias(ident, IdUnion(variants), ident)), Ok(ident))

RECURSIVE visit_type(_, _, _)
RECURSIVE visit_struct(_, _)
RECURSIVE NonUnionLoop(_, _, _, _)
RECURSIVE UnionLoop(_, _, _, _, _, _, _)

\* .map(Some) on the result of visit_struct or visit_enum.
MapSome(v) == IF v.r.ok THEN Visit(v.ctx, Ok(Some(v.r.v))) ELSE v

\* The List arm of visit_type, given the visit of the element type.
ArrayOfVisited(v) ==
    IF ~v.r.ok THEN v
    ELSE IF v.r.v.some THEN Visit(v.ctx, Ok(Some(IdArrayOf(v.r.v.v))))
    ELSE Visit(v.ctx, Ok(None))

visit_type(c, type, field) ==
    CASE type.k = "Void" -> Visit(c, Ok(Some(IdNull)))
      [] type.k = "Bool" -> Visit(c, Ok(Some(IdBool)))
      [] type.k = "Int32" -> Visit(c, Ok(Some(IdNumber)))
      [] type.k = "Text" -> Visit(c, Ok(Some(IdString)))
      [] type.k = "Data" -> visit_data(c, field)
      [] type.k = "Struct" -> MapSome(visit_struct(c, type.sid))
      [] type.k = "AnyPointer" -> Visit(c, Ok(None))
      [] type.k = "Enum" -> MapSome(visit_enum(c, EnumSchema(type.eid)))
      [] type.k = "List" -> ArrayOfVisited(visit_type(c, type.elem, field))

\* The body of the non-union loop after its visit_type(..)?: v is that visit.
NonUnionStep(v, fields, i, map) ==
    IF ~v.r.ok THEN v
    ELSE NonUnionLoop(v.ctx, fields, i + 1,
             IF v.r.v.some
             THEN MapInsert(map, fields[i].codeOrder,
                            [name |-> field_name(fields[i], read_annots(fields[i].annots)),
                             type |-> v.r.v.v])
             ELSE map)

\* for field in schema.get_non_union_fields()? { ... }
NonUnionLoop(c, fields, i, map) ==
    IF i > Len(fields) THEN Visit(c, Ok(map))
    ELSE NonUnionStep(visit_type(c, fields[i].type, read_annots(fields[i].annots)),
                      fields, i, map)

\* The body of the union loop after its visit_type(..)?: v is that visit.
UnionStep(v, schema, ident, dopts, i, non_union_fields, variants) ==
    LET field == get_union_fields(schema)[i]
        annots == read_annots(field.annots)
        variantR == from_union_variant(schema, field)
        name == IF dopts.value_name.some THEN dopts.value_name.v
                ELSE field_name(field, annots)
        variant_fields == Append(non_union_fields, [name |-> name, type |-> v.r.v.v])
    IN  IF ~v.r.ok THEN v
        ELSE IF v.r.v.some /\ ~variantR.ok THEN Visit(v.ctx, variantR)
        ELSE UnionLoop(IF v.r.v.some
                       THEN Push(v.ctx, ItemInterface(variantR.v, variant_fields, ident))
                       ELSE v.ctx,
                       schema, ident, dopts, i + 1, non_union_fields,
                       IF v.r.v.some THEN Append(variants, variantR.v) ELSE variants)

\* for field in schema.get_union_fields()? { ... }
UnionLoop(c, schema, ident, dopts, i, non_union_fields, variants) ==
    IF i > Len(get_union_fields(schema)) THEN Visit(c, Ok(variants))
    ELSE UnionStep(visit_type(c, get_union_fields(schema)[i].type,
                              read_annots(get_union_fields(schema)[i].annots)),
                   schema, ident, dopts, i, non_union_fields, variants)

\* The end of the union branch of visit_struct: un is the union loop.
PushUnionAlias(un, ident) ==
    IF ~un.r.ok THEN un
    ELSE Visit(Push(un.ctx, ItemAlias(ident, IdUnion(un.r.v), ident)), Ok(ident))

\* visit_struct after its non-union loop: nu is that loop.
StructDeclarations(nu, schema, ident) ==
    IF ~nu.r.ok THEN nu
    ELSE IF has_union_fields(schema)
    THEN PushUnionAlias(UnionLoop(nu.ctx, schema, ident, read_discriminator(schema), 1,
                                  IntoValues(nu.r.v), <<>>),
                        ident)
    ELSE Visit(Push(nu.ctx, ItemInterface(ident, IntoValues(nu.r.v), ident)), Ok(ident))

\* visit_struct with a visited identity refused instead of returned.
visit_struct_revisit_fails(c, sid) ==
    LET schema == StructSchema(sid)
        identR == from_struct(schema)
    IN  IF ~identR.ok THEN Visit(c, identR)
        ELSE IF identR.v \in c.visited THEN Visit(c, Err("visited"))
        ELSE StructDeclarations(
                 NonUnionLoop(Insert(c, identR.v),
                              get_non_union_fields(schema), 1, <<>>),
                 schema, identR.v)

visit_struct(c, sid) ==
    LET schema == StructSchema(sid)
        identR == from_struct(schema)
    IN  IF ~identR.ok THEN Visit(c, identR)
        ELSE IF identR.v \in c.visited THEN Visit(c, identR)
        ELSE StructDeclarations(
                 NonUnionLoop(Insert(c, identR.v),
                              get_non_union_fields(schema), 1, <<>>),
                 schema, identR.v)

\* Item::write_to: the lines of one declaration.
InterfaceWord == <<"i", "n", "t", "e", "r", "f", "a", "c", "e", " ">>

TypeWord == <<"t", "y", "p", "e", " ">>

Indent == <<" ", " ", " ", " ">>

FieldLine(f) == Indent \o f.name \o <<":", " ">> \o Display(f.type) \o <<";">>

write_to(item) ==
    IF item.item = "Interface"
    THEN <<InterfaceWord \o Display(item.ident) \o <<" ", "{">>>>
         \o [k \in DOMAIN item.fields |-> FieldLine(item.fields[k])]
         \o <<<<"}", "\n">>>>
    ELSE <<TypeWord \o Display(item.ident) \o <<" ", "=", " ">> \o Display(item.value)
           \o <<";", "\n">>>>

\* The loop of write run from the last item to the first.
RECURSIVE WriteLinesReversed(_, _)
WriteLinesReversed(items, i) ==
    IF i > Len(items) THEN <<>>
    ELSE WriteLinesReversed(items, i + 1) \o write_to(items[i])

\* The loop of write: the lines of every item, in the order of items.
RECURSIVE WriteLines(_, _)
WriteLines(items, i) ==
    IF i > Len(items) THEN <<>>
    ELSE write_to(items[i]) \o WriteLines(items, i + 1)

\* lines.join("\n")
RECURSIVE Join(_, _)
Join(lines, i) ==
    IF i > Len(lines) THEN <<>>
    ELSE (IF i > 1 THEN <<"\n">> ELSE <<>>) \o lines[i] \o Join(lines, i + 1)

\* Context::write
write(c) == Join(<<<<>>>> \o WriteLines(c.items, 1), 1)

\* Context::add: the whole recursive visit, with the session as it is left
\* when an error is returned.
UnitOf(v) == IF v.r.ok THEN Visit(v.ctx, Ok(<<>>)) ELSE v

add(c, sid) == UnitOf(visit_struct(c, sid))

(***************************************************************************)
(* Schema-bound values (the dynamic value reader / builder) and JSON       *)
(* values (serde_json::Value)                                              *)
(***************************************************************************)
VVoid == [t |-> "void"]

VBool(b) == [t |-> "bool", b |-> b]

VInt(n) == [t |-> "int", n |-> n]

VText(s) == [t |-> "text", s |-> s]

VData(d) == [t |-> "data", d |-> d]

VEnum(ord) == [t |-> "enum", ord |-> ord]

VList(xs) == [t |-> "list", xs |-> xs]

\* which: the position of the active member among the union fields (0: the
\* struct has no union); fs: one value per field, VInactive for the union
\* members that are not active.
VStruct(which, fs) == [t |-> "struct", which |-> which, fs |-> fs]

\* A pointer field that is not set.
VNull == [t |-> "nullptr"]

\* An AnyPointer field that is set.
VAny == [t |-> "anyptr"]

VInactive == [t |-> "inactive"]

JNull == [j |-> "null"]

JBool(b) == [j |-> "bool", b |-> b]

JNum(n) == [j |-> "num", n |-> n]

JStr(s) == [j |-> "str", s |-> s]

JArr(a) == [j |-> "arr", a |-> a]

\* o: a function from keys to JSON values (serde_json::Map).
JObj(o) == [j |-> "obj", o |-> o]

EmptyMap == <<>>

HasKey(o, k) == k \in DOMAIN o

\* The position of a field in schema.fields.
FieldIndex(schema, field) ==
    CHOOSE i \in DOMAIN schema.fields : schema.fields[i] = field

\* The default of a type in a freshly initialised message; init_root::<S>()
\* leaves every field at its default and the union at its first member.
RECURSIVE DefaultValue(_)
DefaultStruct(sid) ==
    VStruct(IF has_union_fields(StructSchema(sid)) THEN 1 ELSE 0,
            [i \in DOMAIN StructSchema(sid).fields |->
                IF /\ StructSchema(sid).fields[i].inUnion
                   /\ StructSchema(sid).fields[i] # get_union_fields(StructSchema(sid))[1]
                THEN VInactive
                ELSE DefaultValue(StructSchema(sid).fields[i].type)])

DefaultValue(type) ==
    CASE type.k = "Void" -> VVoid
      [] type.k = "Bool" -> VBool(FALSE)
      [] type.k = "Int32" -> VInt(0)
      [] type.k = "Enum" -> VEnum(0)
      [] type.k = "Struct" /\ type.group -> DefaultStruct(type.sid)
      [] OTHER -> VNull

(***************************************************************************)
(* Binary data as text: lowercase hex and standard base64 with padding     *)
(***************************************************************************)
HexDigits == DigitChars \o <<"a", "b", "c", "d", "e", "f">>

Base64Alphabet == UpperChars \o LowerChars \o DigitChars \o <<"+", "/">>

IndexOf(alphabet, c) == CHOOSE i \in DOMAIN alphabet : alphabet[i] = c

RECURSIVE HexEncode(_)
HexEncode(d) ==
    IF d = <<>> THEN <<>>
    ELSE <<HexDigits[(Head(d) \div 16) + 1], HexDigits[(Head(d) % 16) + 1]>>
         \o HexEncode(Tail(d))

RECURSIVE HexDecodeFrom(_, _)
HexDecodeFrom(s, i) ==
    IF i > Len(s) THEN <<>>
    ELSE <<(IndexOf(HexDigits, s[i]) - 1) * 16 + (IndexOf(HexDigits, s[i + 1]) - 1)>>
         \o HexDecodeFrom(s, i + 2)

HexDecode(s) ==
    IF Len(s) % 2 # 0 \/ \E i \in DOMAIN s : s[i] \notin Range(HexDigits)
    THEN Err("malformed hex")
    ELSE Ok(HexDecodeFrom(s, 1))

Base64Char(n) == Base64Alphabet[n + 1]

RECURSIVE Base64Encode(_)
Base64Encode(d) ==
    IF d = <<>> THEN <<>>
    ELSE IF Len(d) = 1
    THEN <<Base64Char(d[1] \div 4), Base64Char((d[1] % 4) * 16), "=", "=">>
    ELSE IF Len(d) = 2
    THEN <<Base64Char(d[1] \div 4),
           Base64Char((d[1] % 4) * 16 + d[2] \div 16),
           Base64Char((d[2] % 16) * 4), "=">>
    ELSE <<Base64Char(d[1] \div 4),
           Base64Char((d[1] % 4) * 16 + d[2] \div 16),
           Base64Char((d[2] % 16) * 4 + d[3] \div 64),
           Base64Char(d[3] % 64)>>
         \o Base64Encode(SubSeq(d, 4, Len(d)))

Sextet(c) == IndexOf(Base64Alphabet, c) - 1

\* One group of four characters; pad is the number of trailing '='.
Base64Quad(q, pad) ==
    LET a == Sextet(q[1])
        b == Sextet(q[2])
        c == IF pad >= 2 THEN 0 ELSE Sextet(q[3])
        e == IF pad >= 1 THEN 0 ELSE Sextet(q[4])
        b1 == a * 4 + b \div 16
        b2 == (b % 16) * 16 + c \div 4
        b3 == (c % 4) * 64 + e
    IN  IF pad = 2 THEN <<b1>> ELSE IF pad = 1 THEN <<b1, b2>> ELSE <<b1, b2, b3>>

RECURSIVE Base64DecodeFrom(_, _, _)
Base64DecodeFrom(s, i, pad) ==
    IF i > Len(s) THEN <<>>
    ELSE Base64Quad(SubSeq(s, i, i + 3), IF i + 3 = Len(s) THEN pad ELSE 0)
         \o Base64DecodeFrom(s, i + 4, pad)

Base64Decode(s) ==
    LET n == Len(s)
        pad == IF n >= 2 /\ s[n] = "=" /\ s[n - 1] = "=" THEN 2
               ELSE IF n >= 1 /\ s[n] = "=" THEN 1 ELSE 0
    IN  IF n % 4 # 0 \/ \E i \in 1..(n - pad) : s[i] \notin Range(Base64Alphabet)
        THEN Err("malformed base64")
        ELSE Ok(Base64DecodeFrom(s, 1, pad))

\* The encoder that writes hex whatever the format.
EncodeDataHex(format, d) == HexEncode(d)

EncodeData(format, d) == IF format = "Hex" THEN HexEncode(d) ELSE Base64Encode(d)

DecodeData(format, s) == IF format = "Hex" THEN HexDecode(s) ELSE Base64Decode(s)

(***************************************************************************)
(* The schema walker's shared rules, as the serializer and the             *)
(* deserializer of the specification apply them                            *)
(***************************************************************************)
\* Whether a type has a JSON representation: AnyPointer has none, Data has
\* one only with an encoding annotation, a list when its elements have one.
RECURSIVE Representable(_, _)
Representable(type, annots) ==
    CASE type.k = "AnyPointer" -> FALSE
      [] type.k = "Data" -> annots.data_format.some
      [] type.k = "List" -> Representable(type.elem, annots)
      [] OTHER -> TRUE

\* A union is named (nested under one key) when its struct carries a
\* discriminator annotation, flat otherwise.
IsNamedUnion(schema) == HasAnnot(schema.annots, "discriminator")

\* The JSON key of a union member: valueName when the discriminator sets it.
VariantKey(schema, field) ==
    LET dopts == read_discriminator(schema)
    IN  IF dopts.value_name.some THEN dopts.value_name.v
        ELSE field_name(field, read_annots(field.annots))

FieldKey(field) == field_name(field, read_annots(field.annots))

\* The non-union fields by ascending code order.
RECURSIVE ByCodeOrder(_)
ByCodeOrder(fields) ==
    IF fields = <<>> THEN <<>>
    ELSE LET i == CHOOSE x \in DOMAIN fields :
                      \A y \in DOMAIN fields : fields[x].codeOrder <= fields[y].codeOrder
         IN  <<fields[i]>>
             \o ByCodeOrder(SubSeq(fields, 1, i - 1) \o SubSeq(fields, i + 1, Len(fields)))

(***************************************************************************)
(* serialize(value, opts): Ok(Some(json)), Ok(None) for a value that is    *)
(* omitted, or Err                                                         *)
(***************************************************************************)
\* An enum serializer with a third outcome: the value left out.
SerializeEnumOrOmit(v, schema, o) ==
    IF v.ord < Len(schema.enumerants)
    THEN Ok(Some(JStr(enumerant_value(schema.enumerants[v.ord + 1]))))
    ELSE Ok(None)

SerializeEnum(v, schema, o) ==
    IF v.ord < Len(schema.enumerants)
    THEN Ok(Some(JStr(enumerant_value(schema.enumerants[v.ord + 1]))))
    ELSE IF o.on_enumerant_not_in_schema = "UseNumber"
         THEN Ok(Some(JNum(v.ord)))
         ELSE Err("enumerant not in schema")

SerializeData(v, annots) ==
    IF ~annots.data_format.some THEN Ok(None)
    ELSE IF v = VNull THEN Ok(Some(JNull))
    ELSE Ok(Some(JStr(EncodeData(annots.data_format.v, v.d))))

RECURSIVE SerializeValue(_, _, _, _)
RECURSIVE SerializeStruct(_, _, _)
RECURSIVE SerializeFields(_, _, _, _, _, _)
RECURSIVE SerializeElems(_, _, _, _, _)

\* An element in front of the elements after it.
ConsElem(r, rest) ==
    IF ~r.ok THEN r
    ELSE IF ~rest.ok THEN rest
    ELSE Ok(<<r.v.v>> \o rest.v)

\* The elements of a list, in order.
SerializeElems(xs, i, elem, annots, o) ==
    IF i > Len(xs) THEN Ok(<<>>)
    ELSE ConsElem(SerializeValue(xs[i], elem, annots, o),
                  SerializeElems(xs, i + 1, elem, annots, o))

ArrayOfElems(r) == IF r.ok THEN Ok(Some(JArr(r.v))) ELSE r

SomeOf(r) == IF r.ok THEN Ok(Some(r.v)) ELSE r

SerializeValue(v, type, annots, o) ==
    IF ~Representable(type, annots) THEN Ok(None)
    ELSE CASE type.k = "Void" -> Ok(Some(JNull))
           [] type.k = "Bool" -> Ok(Some(JBool(v.b)))
           [] type.k = "Int32" -> Ok(Some(JNum(v.n)))
           [] type.k = "Text" -> IF v = VNull THEN Ok(Some(JNull)) ELSE Ok(Some(JStr(v.s)))
           [] type.k = "Data" -> SerializeData(v, annots)
           [] type.k = "Enum" -> SerializeEnum(v, EnumSchema(type.eid), o)
           [] type.k = "List" ->
                 IF v = VNull THEN Ok(Some(JNull))
                 ELSE ArrayOfElems(SerializeElems(v.xs, 1, type.elem, annots, o))
           [] type.k = "Struct" ->
                 IF v = VNull THEN Ok(Some(JNull))
                 ELSE SomeOf(SerializeStruct(v, type.sid, o))

\* One non-union field, r its serialized value, then the fields after it.
SerializeField(r, v, schema, fields, i, o, obj) ==
    IF ~r.ok THEN r
    ELSE SerializeFields(v, schema, fields, i + 1, o,
             IF r.v.some
             THEN MapInsert(obj, field_name(fields[i], read_annots(fields[i].annots)), r.v.v)
             ELSE obj)

\* The non-union fields in code order, each under its resolved name.
SerializeFields(v, schema, fields, i, o, obj) ==
    IF i > Len(fields) THEN Ok(obj)
    ELSE SerializeField(
             SerializeValue(v.fs[FieldIndex(schema, fields[i])], fields[i].type,
                            read_annots(fields[i].annots), o),
             v, schema, fields, i, o, obj)

\* The member of the union that is set, r its serialized value: merged into
\* the object (flat) or nested under the discriminator name.
SerializeUnion(r, obj, schema, field) ==
    IF ~r.ok THEN r
    ELSE IF IsNamedUnion(schema)
    THEN Ok(JObj(MapInsert(obj, read_discriminator(schema).name,
            JObj(IF r.v.some THEN MapInsert(EmptyMap, VariantKey(schema, field), r.v.v)
                 ELSE EmptyMap))))
    ELSE IF r.v.some THEN Ok(JObj(MapInsert(obj, VariantKey(schema, field), r.v.v)))
    ELSE Ok(JObj(obj))

\* A struct after its non-union fields (nu).
SerializeMembers(nu, v, schema, o) ==
    IF ~nu.ok THEN nu
    ELSE IF ~has_union_fields(schema) THEN Ok(JObj(nu.v))
    ELSE SerializeUnion(
            SerializeValue(v.fs[FieldIndex(schema, get_union_fields(schema)[v.which])],
                           get_union_fields(schema)[v.which].type,
                           read_annots(get_union_fields(schema)[v.which].annots), o),
            nu.v, schema, get_union_fields(schema)[v.which])

SerializeStruct(v, sid, o) ==
    SerializeMembers(
        SerializeFields(v, StructSchema(sid),
                        ByCodeOrder(get_non_union_fields(StructSchema(sid))), 1, o, EmptyMap),
        v, StructSchema(sid), o)

\* serialize(value, opts) of a struct reader.
serialize(v, sid, o) == SerializeStruct(v, sid, o)

(***************************************************************************)
(* deserialize_into(target, json): Ok(the target as written) or Err        *)
(***************************************************************************)
\* The position of the enumerant a string names (0: none).
EnumerantNamed(schema, s) ==
    IF \E i \in DOMAIN schema.enumerants : enumerant_value(schema.enumerants[i]) = s
    THEN CHOOSE i \in DOMAIN schema.enumerants :
            /\ enumerant_value(schema.enumerants[i]) = s
            /\ \A k \in DOMAIN schema.enumerants :
                  enumerant_value(schema.enumerants[k]) = s => i <= k
    ELSE 0

DeserializeEnum(j, schema) ==
    IF j.j # "str" THEN Err("shape mismatch: string expected")
    ELSE IF EnumerantNamed(schema, j.s) = 0 THEN Err("unknown enumerant")
    ELSE Ok(VEnum(EnumerantNamed(schema, j.s) - 1))

DeserializeData(j, annots) ==
    IF j.j # "str" THEN Err("shape mismatch: string expected")
    ELSE LET r == DecodeData(annots.data_format.v, j.s)
         IN  IF r.ok THEN Ok(VData(r.v)) ELSE r

\* The last union member, in declared order, whose key the object holds.
SelectVariantLast(schema, o) ==
    LET fields == get_union_fields(schema)
        present == {i \in DOMAIN fields : HasKey(o, VariantKey(schema, fields[i]))}
    IN  IF present = {} THEN 0
        ELSE CHOOSE i \in present : \A k \in present : i >= k

\* The first union member, in declared order, whose key the object holds
\* (0: none).
SelectVariant(schema, o) ==
    LET fields == get_union_fields(schema)
        present == {i \in DOMAIN fields : HasKey(o, VariantKey(schema, fields[i]))}
    IN  IF present = {} THEN 0
        ELSE CHOOSE i \in present : \A k \in present : i <= k

RECURSIVE DeserializeValue(_, _, _, _)
RECURSIVE DeserializeStruct(_, _, _)
RECURSIVE DeserializeFields(_, _, _, _, _)
RECURSIVE DeserializeElems(_, _, _, _)

ConsValue(r, rest) ==
    IF ~r.ok THEN r
    ELSE IF ~rest.ok THEN rest
    ELSE Ok(<<r.v>> \o rest.v)

DeserializeElems(a, i, elem, annots) ==
    IF i > Len(a) THEN Ok(<<>>)
    ELSE ConsValue(DeserializeValue(DefaultValue(elem), a[i], elem, annots),
                   DeserializeElems(a, i + 1, elem, annots))

ListOfElems(r) == IF r.ok THEN Ok(VList(r.v)) ELSE r

IsPointer(type) == type.k \in {"Text", "Data", "List", "Struct", "AnyPointer"}

\* cur: what the target position holds before the write.  JSON null leaves a
\* pointer field as it is.
DeserializeValue(cur, j, type, annots) ==
    IF ~Representable(type, annots) THEN Ok(cur)
    ELSE CASE type.k = "Void" ->
                 IF j.j = "null" THEN Ok(VVoid) ELSE Err("shape mismatch: null expected")
           [] type.k = "Bool" ->
                 IF j.j = "bool" THEN Ok(VBool(j.b)) ELSE Err("shape mismatch: boolean expected")
           [] type.k = "Int32" ->
                 IF j.j = "num" THEN Ok(VInt(j.n)) ELSE Err("shape mismatch: number expected")
           [] type.k = "Enum" -> DeserializeEnum(j, EnumSchema(type.eid))
           [] IsPointer(type) /\ j.j = "null" -> Ok(cur)
           [] type.k = "Text" /\ j.j # "null" ->
                 IF j.j = "str" THEN Ok(VText(j.s)) ELSE Err("shape mismatch: string expected")
           [] type.k = "Data" /\ j.j # "null" -> DeserializeData(j, annots)
           [] type.k = "List" /\ j.j # "null" ->
                 IF j.j # "arr" THEN Err("shape mismatch: array expected")
                 ELSE ListOfElems(DeserializeElems(j.a, 1, type.elem, annots))
           [] type.k = "Struct" /\ j.j # "null" ->
                 IF j.j # "obj" THEN Err("shape mismatch: object expected")
                 ELSE DeserializeStruct(IF cur = VNull THEN DefaultStruct(type.sid) ELSE cur,
                                        j.o, type.sid)

\* One non-union field, r the value read for it, then the fields after it.
WriteField(r, cur, o, schema, fields, i) ==
    IF ~r.ok THEN r
    ELSE DeserializeFields([cur EXCEPT !.fs[FieldIndex(schema, fields[i])] = r.v],
                           o, schema, fields, i + 1)

\* A reader that requires every non-union field's key.
DeserializeFieldsRequired(cur, o, schema, fields, i) ==
    IF i > Len(fields) THEN Ok(cur)
    ELSE IF ~HasKey(o, FieldKey(fields[i])) THEN Err("missing field")
    ELSE WriteField(
             DeserializeValue(cur.fs[FieldIndex(schema, fields[i])], o[FieldKey(fields[i])],
                              fields[i].type, read_annots(fields[i].annots)),
             cur, o, schema, fields, i)

\* Each non-union field whose resolved name is a key of the object.
DeserializeFields(cur, o, schema, fields, i) ==
    IF i > Len(fields) THEN Ok(cur)
    ELSE IF ~HasKey(o, FieldKey(fields[i]))
    THEN DeserializeFields(cur, o, schema, fields, i + 1)
    ELSE WriteField(
             DeserializeValue(cur.fs[FieldIndex(schema, fields[i])], o[FieldKey(fields[i])],
                              fields[i].type, read_annots(fields[i].annots)),
             cur, o, schema, fields, i)

\* The selected member written (r the value read for it), the other members
\* of the union cleared.
WriteVariant(r, cur, schema, pick) ==
    IF ~r.ok THEN r
    ELSE Ok([cur EXCEPT
               !.which = pick,
               !.fs = [i \in DOMAIN cur.fs |->
                         IF i = FieldIndex(schema, get_union_fields(schema)[pick]) THEN r.v
                         ELSE IF schema.fields[i].inUnion THEN VInactive
                         ELSE cur.fs[i]]])

\* The union of a struct, read from the object that holds its members' keys.
DeserializeUnion(cur, o, schema) ==
    LET pick == SelectVariant(schema, o)
        field == get_union_fields(schema)[pick]
        at == FieldIndex(schema, field)
    IN  IF pick = 0 THEN Ok(cur)
        ELSE WriteVariant(
                 DeserializeValue(IF cur.which = pick THEN cur.fs[at]
                                  ELSE DefaultValue(field.type),
                                  o[VariantKey(schema, field)], field.type,
                                  read_annots(field.annots)),
                 cur, schema, pick)

\* A struct after its non-union fields (nu): its union, flat or nested.
DeserializeMembers(nu, o, schema) ==
    IF ~nu.ok THEN nu
    ELSE IF ~has_union_fields(schema) THEN nu
    ELSE IF IsNamedUnion(schema)
    THEN IF ~HasKey(o, read_discriminator(schema).name) THEN nu
         ELSE IF o[read_discriminator(schema).name].j # "obj"
         THEN Err("shape mismatch: object expected")
         ELSE DeserializeUnion(nu.v, o[read_discriminator(schema).name].o, schema)
    ELSE DeserializeUnion(nu.v, o, schema)

DeserializeStruct(cur, o, sid) ==
    DeserializeMembers(
        DeserializeFields(cur, o, StructSchema(sid),
                          ByCodeOrder(get_non_union_fields(StructSchema(sid))), 1),
        o, StructSchema(sid))

\* deserialize_into(target, json) of a struct builder.
deserialize_into(cur, j, sid) ==
    IF j.j # "obj" THEN Err("shape mismatch: object expected")
    ELSE DeserializeStruct(cur, j.o, sid)

(***************************************************************************)
(* Inputs                                                                  *)
(***************************************************************************)
NameAnnChoices ==
    {<<>>,
     <<OtherAnnot, NameAnnot(<<"x">>)>>,
     <<NameAnnot(<<"x">>), NameAnnot(<<"y">>)>>,
     <<FlattenAnnot(None)>>,
     <<NameAnnot(<<"b">>)>>}

DataAnnChoices ==
    {<<>>, <<OtherAnnot>>, <<HexAnnot>>, <<Base64Annot>>, <<HexAnnot, Base64Annot>>}

DiscAnnChoices ==
    {<<>>,
     <<DiscriminatorAnnot(None, None)>>,
     <<DiscriminatorAnnot(Some(<<"v">>), None)>>,
     <<DiscriminatorAnnot(None, Some(<<"v", "a", "l">>))>>,
     <<NameAnnot(<<"w">>), DiscriminatorAnnot(None, None)>>,
     <<NameAnnot(<<"w">>), DiscriminatorAnnot(Some(<<"v">>), None)>>}

\* The annotations of Leaf.a, U.variant and E.bar (nameAnn), of Leaf.d
\* (dataAnn) and of U (discAnn).  nameAnn and discAnn meet in U and are
\* combined; dataAnn is varied on its own.
Cfgs ==
    {[nameAnn |-> n, dataAnn |-> <<HexAnnot>>, discAnn |-> k] :
        n \in NameAnnChoices, k \in DiscAnnChoices}
    \cup {[nameAnn |-> <<>>, dataAnn |-> d, discAnn |-> <<>>] : d \in DataAnnChoices}

\* The annotations that bear on a struct: those of the nodes it reaches.
CodecCfgs(sid) ==
    {c \in Cfgs :
        /\ sid \in {"Leaf", "Outer", "Node", "Foo"} => c.discAnn = <<>>
        /\ sid \in {"U", "Node", "Foo"} => c.dataAnn = <<HexAnnot>>
        /\ sid = "Foo" => c.nameAnn = <<>>}

\* serialize::Opts
Opts == {[on_enumerant_not_in_schema |-> p] : p \in {"UseNumber", "Error"}}

DefaultOpts == [on_enumerant_not_in_schema |-> "UseNumber"]

\* The structs a caller adds to a session, serializes and deserializes.
Roots == {"Leaf", "U", "Foo", "Node", "Outer"}

\* The root structs of the calls of add: the mutually recursive Ping too.
GenRoots == Roots \cup {"Ping"}

MaxAdds == 2

MaxDepth == 2

MaxListLen == 1

IntValues == {VInt(0), VInt(42)}

TextValues == {VNull, VText(<<"x">>)}

DataValues == {VNull, VData(<<104>>), VData(<<0, 255>>), VData(<<104, 101, 120>>)}

RECURSIVE Product(_)
Product(sets) ==
    IF sets = <<>> THEN {<<>>}
    ELSE {<<h>> \o t : h \in Head(sets), t \in Product(Tail(sets))}

SeqsUpTo(S, n) == UNION {[1..k -> S] : k \in 0..n}

\* The values of a type, structs nested at most depth deep.
RECURSIVE Values(_, _)
RECURSIVE StructValues(_, _)
Values(type, depth) ==
    CASE type.k = "Void" -> {VVoid}
      [] type.k = "Bool" -> {VBool(FALSE), VBool(TRUE)}
      [] type.k = "Int32" -> IntValues
      [] type.k = "Text" -> TextValues
      [] type.k = "Data" -> DataValues
      [] type.k = "AnyPointer" -> {VNull, VAny}
      [] type.k = "Enum" ->
            {VEnum(ord) : ord \in 0..Len(EnumSchema(type.eid).enumerants)}
      [] type.k = "Struct" ->
            (IF type.group THEN {} ELSE {VNull}) \cup StructValues(type.sid, depth)
      [] type.k = "List" ->
            {VNull} \cup
            {VList(xs) : xs \in SeqsUpTo(IF type.elem.k = "Struct"
                                         THEN StructValues(type.elem.sid, depth)
                                         ELSE Values(type.elem, depth), MaxListLen)}

StructValues(sid, depth) ==
    IF depth = 0 THEN {}
    ELSE LET schema == StructSchema(sid)
             union == get_union_fields(schema)
             whichs == IF union = <<>> THEN {0} ELSE DOMAIN union
         IN  UNION {
               {VStruct(w, fs) :
                  fs \in Product([i \in DOMAIN schema.fields |->
                     IF schema.fields[i].inUnion /\ schema.fields[i] # union[w]
                     THEN {VInactive}
                     ELSE Values(schema.fields[i].type, depth - 1)])} :
               w \in whichs}

\* JSON a client may send: what serialize produces, the members of two such
\* objects side by side, members of a wrong shape, a key left out, and keys
\* that are declared names.
RECURSIVE Merge(_, _)
Merge(j1, j2) ==
    IF j1.j = "obj" /\ j2.j = "obj"
    THEN JObj([k \in DOMAIN j1.o \cup DOMAIN j2.o |->
                 IF k \notin DOMAIN j2.o THEN j1.o[k]
                 ELSE IF k \notin DOMAIN j1.o THEN j2.o[k]
                 ELSE Merge(j1.o[k], j2.o[k])])
    ELSE j1

RECURSIVE WrongShape(_)
WrongShape(j) ==
    IF j.j = "obj" THEN JObj([k \in DOMAIN j.o |-> WrongShape(j.o[k])])
    ELSE JArr(<<JObj(EmptyMap)>>)

WithoutKeys(j, keys) == JObj([k \in DOMAIN j.o \ keys |-> j.o[k]])

Serialized(sid) ==
    {serialize(v, sid, DefaultOpts).v : v \in StructValues(sid, MaxDepth)}

\* The object with the member under key k moved under key d.
Rekey(j, k, d) ==
    JObj([x \in (DOMAIN j.o \ {k}) \cup {d} |-> IF x = d THEN j.o[k] ELSE j.o[x]])

\* The declared names of the fields that have a JSON representation.
DeclaredNames(sid) ==
    {StructSchema(sid).fields[i].name :
        i \in {x \in DOMAIN StructSchema(sid).fields :
                  Representable(StructSchema(sid).fields[x].type,
                                read_annots(StructSchema(sid).fields[x].annots))}}

\* Objects keyed by the declared field names, and enum members given by the
\* declared enumerant names, whatever the annotations say.
DeclaredJson(sid) ==
    {Rekey(p[1], p[2], d) :
        p \in {q \in Serialized(sid) \X UNION {DOMAIN x.o : x \in Serialized(sid)} :
                  q[2] \in DOMAIN q[1].o},
        d \in DeclaredNames(sid)}
    \cup {JObj([k \in {FieldKey(StructSchema(sid).fields[i])} |->
                  JStr(EnumSchema(StructSchema(sid).fields[i].type.eid).enumerants[n].name)]) :
             i \in {x \in DOMAIN StructSchema(sid).fields :
                       StructSchema(sid).fields[x].type.k = "Enum"},
             n \in DOMAIN EnumSchema("E").enumerants}

\* What serialize produces for the values that nest no struct.
Shallow(sid) ==
    {serialize(v, sid, DefaultOpts).v : v \in StructValues(sid, 1)}

ClientJson(sid) ==
    LET pairs == {Merge(j1, j2) : j1 \in Serialized(sid),
                                  j2 \in Shallow(sid) \cup
                                         {WrongShape(j) : j \in Shallow(sid)}}
    IN  UNION {{j, JObj(EmptyMap)} \cup {WithoutKeys(j, {k}) : k \in DOMAIN j.o} :
               j \in pairs}
        \cup DeclaredJson(sid)

(***************************************************************************)
(* The state machine                                                       *)
(***************************************************************************)
NoCall == [op |-> "none", sid |-> "", ok |-> TRUE, n |-> 0]

NoSubject == [sid |-> "", v |-> VNull]

NoJson == [j |-> "none"]

NoOutcome == [op |-> "none", ok |-> TRUE, src |-> "none"]

\* What a failed deserialize_into leaves in its target is not promised.
Unspecified == [t |-> "unspecified"]

\* A generation session, Context::new(opts), or a value to serialize and a
\* freshly initialised message to deserialize into.
InitGen ==
    /\ mode = "gen"
    /\ cfg \in Cfgs
    /\ opts \in Opts
    /\ subject = NoSubject
    /\ target = VNull

InitCodec ==
    /\ mode = "codec"
    /\ opts = DefaultOpts
    /\ \E sid \in Roots :
          /\ cfg \in CodecCfgs(sid)
          /\ subject \in {[sid |-> sid, v |-> v] : v \in StructValues(sid, MaxDepth)}
          /\ target = DefaultStruct(sid)

Init ==
    /\ ctx = NewContext
    /\ last = NoCall
    /\ json = NoJson
    /\ outcome = NoOutcome
    /\ (InitGen \/ InitCodec)

\* ctx.add::<Owned>()
Add(sid) ==
    /\ mode = "gen"
    /\ last.n < MaxAdds
    /\ LET v == add(ctx, sid)
       IN  /\ ctx' = v.ctx
           /\ last' = [op |-> "add", sid |-> sid, ok |-> v.r.ok, n |-> last.n + 1]
    /\ UNCHANGED <<mode, cfg, opts, subject, json, target, outcome>>

\* serialize(subject, o)
Serialize(o) ==
    /\ mode = "codec"
    /\ outcome.op = "none"
    /\ LET r == serialize(subject.v, subject.sid, o)
       IN  /\ json' = IF r.ok THEN r.v ELSE NoJson
           /\ outcome' = [op |-> "serialize", ok |-> r.ok, src |-> "none"]
    /\ opts' = o
    /\ UNCHANGED <<mode, cfg, ctx, last, subject, target>>

\* A client's JSON arrives instead.  It does not depend on a local value: it
\* is taken in the sessions whose subject is the default message.
Receive ==
    /\ mode = "codec"
    /\ outcome.op = "none"
    /\ subject.v = DefaultStruct(subject.sid)
    /\ \E j \in ClientJson(subject.sid) : json' = j
    /\ outcome' = [op |-> "receive", ok |-> TRUE, src |-> "none"]
    /\ UNCHANGED <<mode, cfg, opts, ctx, last, subject, target>>

\* deserialize_into(target, &json)
DeserializeInto ==
    /\ mode = "codec"
    /\ outcome.op \in {"serialize", "receive"}
    /\ json # NoJson
    /\ LET r == deserialize_into(target, json, subject.sid)
       IN  /\ target' = IF r.ok THEN r.v ELSE Unspecified
           /\ outcome' = [op |-> "deserialize", ok |-> r.ok, src |-> outcome.op]
    /\ UNCHANGED <<mode, cfg, opts, ctx, last, subject, json>>

Next ==
    \/ \E sid \in GenRoots : Add(sid)
    \/ \E o \in Opts : Serialize(o)
    \/ Receive
    \/ DeserializeInto

Spec == Init /\ [][Next]_vars

(***************************************************************************)
(* Properties of the type generator                                        *)
(***************************************************************************)
\* The identity of a struct in the session (from_struct, when it succeeds).
IdentOf(sid) == from_struct(StructSchema(sid)).v

HasIdent(sid) == from_struct(StructSchema(sid)).ok

\* The declarations pushed by the visit of one identity, in order.
OwnItems(c, ident) == SelectSeq(c.items, LAMBDA it : it.by = ident)

HasFlatten(list) == HasAnnot(list, "flatten")

\* The identities of the nodes that carry the annotations nameAnn: the
\* visit of each reads them.
NameAnnNodes == {IdentOf("Leaf"), IdentOf("U"), from_enum(EnumSchema("E")).v}

\* The fields with a JSON representation.
RepresentableFields(fields) ==
    SelectSeq(fields, LAMBDA f : Representable(f.type, read_annots(f.annots)))

\* C7: the flatten annotation is rejected: the first add of a session that
\* visits a node carrying a flatten annotation returns an error.
C7_FlattenRejected ==
    (/\ last.op = "add"
     /\ last.n = 1
     /\ HasFlatten(cfg.nameAnn)
     /\ ctx.visited \cap NameAnnNodes # {})
    => ~last.ok

\* C8: each struct, enum or data-alias identity is declared at most once in
\* a session, and adding a struct whose identity is visited returns Ok and
\* leaves the session as it is.
C8_Deduplication ==
    mode = "gen"
    => /\ \A i, j \in DOMAIN ctx.items :
             (/\ ctx.items[i].by = ctx.items[j].by
              /\ ctx.items[i].ident = ctx.items[i].by
              /\ ctx.items[j].ident = ctx.items[j].by) => i = j
       /\ \A sid \in Roots :
             (HasIdent(sid) /\ IdentOf(sid) \in ctx.visited)
             => add(ctx, sid) = Visit(ctx, Ok(<<>>))

\* Leaf added twice: one interface and one data alias.
C8_Witness ==
    /\ last.op = "add"
    /\ last.n = 2
    /\ last.sid = "Leaf"
    /\ last.ok
    /\ ctx.visited = {IdentOf("Leaf"), IdHexData}
    /\ Len(ctx.items) = 2

\* C9: no two declarations of a session are rendered under the same name.
C9_UniqueNames ==
    \A i, j \in DOMAIN ctx.items :
        Display(ctx.items[i].ident) = Display(ctx.items[j].ident) => i = j

\* C10: a struct with a union whose alias has been pushed has declared, in
\* order, one interface per union member of representable type, each
\* listing the representable non-union fields by code order followed by the
\* member's own field, and then one alias of the union of those interfaces.
C10_UnionDeclarations ==
    mode = "gen" =>
    \A sid \in StructIds :
        LET schema == StructSchema(sid)
            own == OwnItems(ctx, IdentOf(sid))
            members == RepresentableFields(get_union_fields(schema))
            common == RepresentableFields(ByCodeOrder(get_non_union_fields(schema)))
            N == Len(members)
        IN  (/\ has_union_fields(schema)
             /\ HasIdent(sid)
             /\ \E i \in DOMAIN own : own[i].item = "Alias")
            => /\ Len(own) = N + 1
               /\ \A i \in 1..N :
                     /\ own[i].item = "Interface"
                     /\ own[i].ident = from_union_variant(schema, members[i]).v
                     /\ Len(own[i].fields) = Len(common) + 1
                     /\ \A k \in DOMAIN common :
                           own[i].fields[k].name = FieldKey(common[k])
                     /\ own[i].fields[Len(common) + 1].name
                           = VariantKey(schema, members[i])
               /\ own[N + 1].item = "Alias"
               /\ own[N + 1].ident = IdentOf(sid)
               /\ own[N + 1].value = IdUnion([i \in 1..N |-> own[i].ident])

\* U (three of its four members representable) and Foo (two non-union
\* fields out of declaration order, one not representable) both declared.
C10_Witness ==
    /\ last.ok
    /\ Len(OwnItems(ctx, IdentOf("U"))) = 4
    /\ Len(OwnItems(ctx, IdentOf("Foo"))) = 3
    /\ Len(OwnItems(ctx, IdentOf("Foo"))[1].fields) = 3


(***************************************************************************)
(* Properties of name resolution                                           *)
(***************************************************************************)
\* The names the name annotations of a node give.
AnnotatedNames(list) == {list[i].s : i \in {x \in DOMAIN list : list[x].id = "name"}}

\* key is the resolved name of a node: an annotated name, and not the
\* declared one, when the node carries a name annotation; the declared name
\* otherwise.
Named(declared, annots, key) ==
    IF AnnotatedNames(annots) # {}
    THEN key \in AnnotatedNames(annots) /\ key # declared
    ELSE key = declared

\* The fields a, variant and the enumerant bar: the nodes annotated by nameAnn.
FieldA == LeafSchema.fields[1]

FieldVariant == USchema.fields[3]

EnumerantBar == EnumSchema("E").enumerants[2]

\* The object that holds the keys of U's union members.
UnionObject(j) ==
    IF IsNamedUnion(USchema) THEN j.o[read_discriminator(USchema).name] ELSE j

\* The name override in the declarations of a session.  valueKeyed: whether
\* a union member of a struct whose discriminator sets valueName is keyed
\* by valueName instead.
NamesInDeclarations(valueKeyed) ==
    \A i \in DOMAIN ctx.items :
        LET it == ctx.items[i]
        IN  /\ (it.item = "Interface" /\ it.by = IdentOf("Leaf"))
               => /\ \E k \in DOMAIN it.fields : it.fields[k].type = IdNumber
                  /\ \A k \in DOMAIN it.fields :
                        /\ it.fields[k].type = IdNumber
                           => Named(FieldA.name, FieldA.annots, it.fields[k].name)
                        /\ AnnotatedNames(FieldA.annots) # {}
                           => it.fields[k].name # FieldA.name
            /\ (it.item = "Interface" /\ it.by = IdentOf("U")
                  /\ it.ident = from_union_variant(USchema, FieldVariant).v)
               => IF valueKeyed /\ read_discriminator(USchema).value_name.some
                  THEN it.fields[Len(it.fields)].name = read_discriminator(USchema).value_name.v
                  ELSE Named(FieldVariant.name, FieldVariant.annots,
                             it.fields[Len(it.fields)].name)
            /\ (it.item = "Alias" /\ it.ident = from_enum(EnumSchema("E")).v)
               => /\ it.value.vs[1] = IdLiteral(EnumSchema("E").enumerants[1].name)
                  /\ it.value.vs[2].k = "Literal"
                  /\ Named(EnumerantBar.name, EnumerantBar.annots, it.value.vs[2].n)

\* The name override in what serialize produced.
NamesInSerialized(valueKeyed) ==
    (outcome.op = "serialize" /\ outcome.ok) =>
        /\ subject.sid = "Leaf"
           => /\ \E k \in DOMAIN json.o :
                    /\ Named(FieldA.name, FieldA.annots, k)
                    /\ json.o[k] = JNum(subject.v.fs[1].n)
              /\ AnnotatedNames(FieldA.annots) # {} => FieldA.name \notin DOMAIN json.o
        /\ (subject.sid = "U" /\ subject.v.which = 2)
           => IF valueKeyed /\ read_discriminator(USchema).value_name.some
              THEN UnionObject(json).o[read_discriminator(USchema).value_name.v]
                      = JNum(subject.v.fs[3].n)
              ELSE /\ \E k \in DOMAIN UnionObject(json).o :
                         /\ Named(FieldVariant.name, FieldVariant.annots, k)
                         /\ UnionObject(json).o[k] = JNum(subject.v.fs[3].n)
                   /\ AnnotatedNames(FieldVariant.annots) # {}
                         => FieldVariant.name \notin DOMAIN UnionObject(json).o
        /\ (subject.sid = "Node" /\ subject.v.fs[2] = VEnum(1))
           => /\ json.o[<<"e">>].j = "str"
              /\ Named(EnumerantBar.name, EnumerantBar.annots, json.o[<<"e">>].s)

\* The name override in what deserialize_into wrote.
NamesInDeserialized(valueKeyed) ==
    (outcome.op = "deserialize" /\ outcome.ok) =>
        /\ subject.sid = "Leaf"
           => \E k \in AnnotatedNames(FieldA.annots) \cup {FieldA.name} :
                 /\ Named(FieldA.name, FieldA.annots, k)
                 /\ \/ /\ k \in DOMAIN json.o
                       /\ json.o[k].j = "num"
                       /\ target.fs[1] = VInt(json.o[k].n)
                    \/ /\ k \notin DOMAIN json.o
                       /\ target.fs[1] = DefaultStruct("Leaf").fs[1]
        /\ (subject.sid = "U" /\ target.which = 2)
           => IF valueKeyed /\ read_discriminator(USchema).value_name.some
              THEN UnionObject(json).o[read_discriminator(USchema).value_name.v]
                      = JNum(target.fs[3].n)
              ELSE \E k \in DOMAIN UnionObject(json).o :
                      /\ Named(FieldVariant.name, FieldVariant.annots, k)
                      /\ UnionObject(json).o[k] = JNum(target.fs[3].n)
        /\ (subject.sid = "Node" /\ <<"e">> \in DOMAIN json.o)
           => /\ json.o[<<"e">>].j = "str"
              /\ \E n \in DOMAIN EnumSchema("E").enumerants :
                    /\ Named(EnumSchema("E").enumerants[n].name,
                             EnumSchema("E").enumerants[n].annots, json.o[<<"e">>].s)
                    /\ target.fs[2] = VEnum(n - 1)

\* C6 as written: every field, union member or enumerant that carries a
\* name annotation is keyed by the annotated name in the declarations, in
\* what serialize produces and in what deserialize_into accepts, never by
\* the declared name; without the annotation the declared name is used.
C6_NameOverride ==
    /\ NamesInDeclarations(FALSE)
    /\ NamesInSerialized(FALSE)
    /\ NamesInDeserialized(FALSE)

\* C6, amended: the same, except that a union member of a struct whose
\* discriminator annotation sets valueName is keyed by valueName, with or
\* without a name annotation of its own.
C6_NameOverrideExceptValueName ==
    /\ NamesInDeclarations(TRUE)
    /\ NamesInSerialized(TRUE)
    /\ NamesInDeserialized(TRUE)

\* A union member and an enumerant that carry two name annotations,
\* declared in one session.
C6_Witness ==
    /\ mode = "gen"
    /\ cfg.nameAnn = <<NameAnnot(<<"x">>), NameAnnot(<<"y">>)>>
    /\ ~read_discriminator(USchema).value_name.some
    /\ \E i \in DOMAIN ctx.items :
          /\ ctx.items[i].ident = from_union_variant(USchema, FieldVariant).v
          /\ ctx.items[i].fields[Len(ctx.items[i].fields)].name = <<"y">>
    /\ \E i \in DOMAIN ctx.items :
          /\ ctx.items[i].ident = from_enum(EnumSchema("E")).v
          /\ ctx.items[i].value.vs[2] = IdLiteral(<<"y">>)

\* A client's object keyed by the declared name of an annotated field, read
\* without the field being written.

C6_WitnessDeclaredKey ==
    /\ outcome.op = "deserialize"
    /\ outcome.src = "receive"
    /\ outcome.ok
    /\ subject.sid = "Leaf"
    /\ AnnotatedNames(cfg.nameAnn) # {}
    /\ FieldA.name \in DOMAIN json.o
    /\ json.o[FieldA.name] = JNum(42)
    /\ target.fs[1] = VInt(0)


(***************************************************************************)
(* Properties of serialize and deserialize_into                            *)
(***************************************************************************)
\* The resolved keys of a struct's object are pairwise distinct: those of
\* its non-union fields, those of its union members, and the key of a
\* named union.
DistinctKeys(sid) ==
    LET schema == StructSchema(sid)
        nu == RepresentableFields(get_non_union_fields(schema))
        un == get_union_fields(schema)
    IN  /\ \A i, j \in DOMAIN nu : FieldKey(nu[i]) = FieldKey(nu[j]) => i = j
        /\ \A i, j \in DOMAIN un :
              VariantKey(schema, un[i]) = VariantKey(schema, un[j]) => i = j
        /\ \A i \in DOMAIN nu :
              IF IsNamedUnion(schema)
              THEN FieldKey(nu[i]) # read_discriminator(schema).name
              ELSE \A j \in DOMAIN un : FieldKey(nu[i]) # VariantKey(schema, un[j])

\* No enum value outside the schema, anywhere in the value.
RECURSIVE EnumsInSchema(_, _)
EnumsInSchema(v, type) ==
    CASE v \in {VNull, VInactive} -> TRUE
      [] v \notin {VNull, VInactive} /\ type.k = "Enum" ->
            v.ord < Len(EnumSchema(type.eid).enumerants)
      [] v \notin {VNull, VInactive} /\ type.k = "List" ->
            \A i \in DOMAIN v.xs : EnumsInSchema(v.xs[i], type.elem)
      [] v \notin {VNull, VInactive} /\ type.k = "Struct" ->
            \A i \in DOMAIN v.fs :
                EnumsInSchema(v.fs[i], StructSchema(type.sid).fields[i].type)
      [] OTHER -> TRUE

\* Everything the value holds has a JSON representation: no pointer of a
\* type without one is set, the active member of every union has one, and
\* the keys of every struct in it are distinct.
RECURSIVE Representation(_, _, _)
Representation(v, type, annots) ==
    CASE v \in {VNull, VInactive} -> TRUE
      [] v \notin {VNull, VInactive} /\ type.k = "List" ->
            /\ Representable(type, annots)
            /\ \A i \in DOMAIN v.xs : Representation(v.xs[i], type.elem, annots)
      [] v \notin {VNull, VInactive} /\ type.k = "Struct" ->
            LET schema == StructSchema(type.sid)
            IN  /\ DistinctKeys(type.sid)
                /\ has_union_fields(schema)
                      => Representable(get_union_fields(schema)[v.which].type,
                            read_annots(get_union_fields(schema)[v.which].annots))
                /\ \A i \in DOMAIN v.fs :
                      Representation(v.fs[i], schema.fields[i].type,
                                     read_annots(schema.fields[i].annots))
      [] OTHER -> Representable(type, annots)

\* No schema node of the session carries a flatten annotation.
NoFlatten == ~HasFlatten(cfg.nameAnn)

UnionObjectOf(schema, j) ==
    IF ~IsNamedUnion(schema) THEN j
    ELSE IF HasKey(j.o, read_discriminator(schema).name)
    THEN j.o[read_discriminator(schema).name]
    ELSE JObj(EmptyMap)

PresentVariants(schema, obj) ==
    {i \in DOMAIN get_union_fields(schema) :
        VariantKey(schema, get_union_fields(schema)[i]) \in DOMAIN obj.o}

\* The object without the keys of the union members other than member keep.
OnlyVariant(schema, j, keep) ==
    LET un == get_union_fields(schema)
        drop == {VariantKey(schema, un[i]) : i \in DOMAIN un \ {keep}}
                    \ {VariantKey(schema, un[keep])}
    IN  IF ~IsNamedUnion(schema) THEN WithoutKeys(j, drop)
        ELSE JObj([k \in DOMAIN j.o |->
                     IF k = read_discriminator(schema).name
                     THEN WithoutKeys(j.o[k], drop) ELSE j.o[k]])

Lowest(S) == CHOOSE i \in S : \A k \in S : i <= k

\* C2: when the object of a union holds the keys of several members,
\* deserialize_into behaves as if only the key of the lowest of them were
\* there: it selects that member, leaves the others unset, and fails only
\* if the call without the other keys fails.
C2_FirstVariantWins ==
    LET schema == StructSchema(subject.sid)
        obj == UnionObjectOf(schema, json)
    IN  (/\ outcome.op = "deserialize"
         /\ has_union_fields(schema)
         /\ obj.j = "obj"
         /\ Cardinality(PresentVariants(schema, obj)) >= 2)
        => LET low == Lowest(PresentVariants(schema, obj))
               alone == deserialize_into(DefaultStruct(subject.sid),
                                         OnlyVariant(schema, json, low), subject.sid)
           IN  /\ outcome.ok = alone.ok
               /\ outcome.ok
                  => /\ target = alone.v
                     /\ target.which = low
                     /\ \A i \in DOMAIN schema.fields :
                           (/\ schema.fields[i].inUnion
                            /\ schema.fields[i] # get_union_fields(schema)[low])
                           => target.fs[i] = VInactive

\* {"variant": 42, "other": 0} (flat or nested) read: variant is selected.
C2_Witness ==
    /\ outcome.op = "deserialize"
    /\ outcome.src = "receive"
    /\ outcome.ok
    /\ subject.sid = "U"
    /\ ~read_discriminator(USchema).value_name.some
    /\ PresentVariants(USchema, UnionObjectOf(USchema, json)) = {2, 3}
    /\ target.which = 2
    /\ target.fs[3] = VInt(42)
    /\ UnionObjectOf(USchema, json).o[VariantKey(USchema, USchema.fields[4])] = JNum(0)

\* The keys of the union members, none of which the object holds.
NoVariantKey(schema, j) ==
    \/ UnionObjectOf(schema, j).j # "obj"
    \/ PresentVariants(schema, UnionObjectOf(schema, j)) = {}

\* The object without anything of the union: the key of a named union, the
\* keys of the members of a flat one.
WithoutUnion(schema, j) ==
    IF IsNamedUnion(schema) THEN WithoutKeys(j, {read_discriminator(schema).name})
    ELSE WithoutKeys(j, {VariantKey(schema, get_union_fields(schema)[i]) :
                            i \in DOMAIN get_union_fields(schema)})

\* C3: after a successful deserialize_into a fresh target, a non-union
\* field whose key is absent is at its default and a union none of whose
\* members' keys is present is at its default member; and absence is no
\* error: the empty object, the object without the key of a non-union field
\* and the object without its union are accepted too.
C3_AbsentLeavesDefault ==
    LET schema == StructSchema(subject.sid)
        fresh == DefaultStruct(subject.sid)
    IN  (outcome.op = "deserialize" /\ outcome.ok)
        => /\ \A i \in DOMAIN schema.fields :
                 (~schema.fields[i].inUnion /\ ~HasKey(json.o, FieldKey(schema.fields[i])))
                 => /\ target.fs[i] = fresh.fs[i]
           /\ (has_union_fields(schema) /\ NoVariantKey(schema, json))
                 => /\ target.which = fresh.which
                    /\ \A i \in DOMAIN schema.fields :
                          schema.fields[i].inUnion => target.fs[i] = fresh.fs[i]
           /\ deserialize_into(fresh, JObj(EmptyMap), subject.sid) = Ok(fresh)
           /\ \A i \in DOMAIN schema.fields :
                 ~schema.fields[i].inUnion
                 => deserialize_into(fresh, WithoutKeys(json, {FieldKey(schema.fields[i])}),
                                     subject.sid).ok
           /\ has_union_fields(schema)
                 => deserialize_into(fresh, WithoutUnion(schema, json), subject.sid).ok

\* U read from an object with the key of common and no key of a member:
\* common is written and the union stays at unset.
C3_Witness ==
    /\ outcome.op = "deserialize"
    /\ outcome.src = "receive"
    /\ outcome.ok
    /\ subject.sid = "U"
    /\ HasKey(json.o, FieldKey(USchema.fields[1]))
    /\ NoVariantKey(USchema, json)
    /\ target.fs[1] = VText(<<"x">>)
    /\ target.which = 1

RECURSIVE EnumsWritten(_, _)
EnumsWritten(v, j) ==
    /\ j.j = "obj"
    /\ HasKey(j.o, NodeSchema.fields[2].name)
    /\ v.fs[2].ord >= Len(EnumSchema("E").enumerants)
          => j.o[NodeSchema.fields[2].name] = JNum(v.fs[2].ord)
    /\ v.fs[1] # VNull
          => /\ HasKey(j.o, NodeSchema.fields[1].name)
             /\ EnumsWritten(v.fs[1], j.o[NodeSchema.fields[1].name])

\* C5: for a Node that holds an enum value outside the schema, at any
\* depth, serialize under UseNumber succeeds with the ordinal as a JSON
\* number in its place, and serialize under Error fails as a whole; in
\* neither case is the key left out.
C5_EnumFallback ==
    (outcome.op = "serialize" /\ subject.sid = "Node")
    => /\ opts.on_enumerant_not_in_schema = "Error"
          => (outcome.ok <=> EnumsInSchema(subject.v, TStruct("Node")))
       /\ opts.on_enumerant_not_in_schema = "UseNumber" => outcome.ok
       /\ outcome.ok => EnumsWritten(subject.v, json)

\* The nested value out of the schema, serialize under Error: the call fails.
C5_Witness ==
    /\ outcome.op = "serialize"
    /\ subject.sid = "Node"
    /\ opts.on_enumerant_not_in_schema = "Error"
    /\ subject.v.fs[2] = VEnum(0)
    /\ subject.v.fs[1] # VNull
    /\ subject.v.fs[1].fs[2] = VEnum(2)
    /\ ~outcome.ok

\* The value out of the schema, serialize under UseNumber: the number.
C5_WitnessUseNumber ==
    /\ outcome.op = "serialize"
    /\ subject.sid = "Node"
    /\ opts.on_enumerant_not_in_schema = "UseNumber"
    /\ subject.v.fs[2] = VEnum(2)
    /\ outcome.ok
    /\ json.o[<<"e">>] = JNum(2)

(***************************************************************************)
(* Properties of the written declarations                                  *)
(***************************************************************************)
NewLine == <<"\n">>

\* The text of one declaration: each of its lines ended by a newline.
RECURSIVE LinesOf(_, _)
LinesOf(lines, i) ==
    IF i > Len(lines) THEN <<>>
    ELSE lines[i] \o NewLine \o LinesOf(lines, i + 1)

DeclarationText(item) ==
    IF item.item = "Interface"
    THEN LinesOf(<<InterfaceWord \o Display(item.ident) \o <<" ", "{">>>>
                 \o [k \in DOMAIN item.fields |-> FieldLine(item.fields[k])]
                 \o <<<<"}">>>>, 1)
    ELSE TypeWord \o Display(item.ident) \o <<" ", "=", " ">> \o Display(item.value)
         \o <<";">> \o NewLine

\* The declarations from the i-th on, a blank line between two of them.
RECURSIVE DeclarationsText(_, _)
DeclarationsText(items, i) ==
    IF i > Len(items) THEN <<>>
    ELSE DeclarationText(items[i])
         \o (IF i < Len(items) THEN NewLine ELSE <<>>)
         \o DeclarationsText(items, i + 1)

\* Whether a type reference mentions an identity.
RECURSIVE Mentions(_, _)
Mentions(t, ident) ==
    CASE t = ident -> TRUE
      [] t # ident /\ t.k = "ArrayOf" -> Mentions(t.elem, ident)
      [] t # ident /\ t.k = "Union" -> \E i \in DOMAIN t.vs : Mentions(t.vs[i], ident)
      [] OTHER -> FALSE

References(item, ident) ==
    IF item.item = "Interface"
    THEN \E k \in DOMAIN item.fields : Mentions(item.fields[k].type, ident)
    ELSE Mentions(item.value, ident)

\* The position of an identity in the order of first visits.
SeenAt(ident) == CHOOSE i \in DOMAIN ctx.seen : ctx.seen[i] = ident

\* C11 as written: write puts the declarations in the order in which their
\* identities were first visited.
C11_WriteInVisitOrder ==
    mode = "gen" =>
    \A i, j \in DOMAIN ctx.items :
        SeenAt(ctx.items[i].by) < SeenAt(ctx.items[j].by) => i < j

\* C11, amended: write of a session with declarations is one leading blank
\* line and then the declarations in the order of items, each line ended by a newline and a blank line
\* between two declarations; and that order is the order in which the
\* visits completed: a declaration comes after the declarations of every
\* identity it references that was first visited after its own.
C11_WriteInCompletionOrder ==
    mode = "gen" =>
    /\ write(ctx) = IF ctx.items = <<>> THEN <<>>
                    ELSE NewLine \o DeclarationsText(ctx.items, 1)
    /\ \A i, j \in DOMAIN ctx.items :
          (/\ ctx.items[j].by # ctx.items[i].by
           /\ References(ctx.items[i], ctx.items[j].by)
           /\ SeenAt(ctx.items[j].by) > SeenAt(ctx.items[i].by)) => j < i

\* Foo added to a new session: the data alias and the group's interface
\* are written before the declarations of Foo, which was visited first.
C11_Witness ==
    /\ last.op = "add"
    /\ last.n = 1
    /\ last.sid = "Foo"
    /\ last.ok
    /\ ctx.seen = <<IdentOf("Foo"), IdentOf("FooBar"), IdHexData>>
    /\ Len(ctx.items) = 5
    /\ ctx.items[1].by = IdHexData
    /\ ctx.items[5].by = IdentOf("Foo")
    /\ Head(write(ctx)) = "\n"

(***************************************************************************)
(* Properties of the discriminator                                         *)
(***************************************************************************)
UnionStructs == {sid \in StructIds : has_union_fields(StructSchema(sid))}

\* Those a visit has read the discriminator of.
VisitedUnionStructs == {sid \in UnionStructs : IdentOf(sid) \in ctx.visited}

\* The struct-level name annotations, in the order of the list.
NameAnnotsOf(schema) == SelectSeq(schema.annots, LAMBDA a : a.id = "name")

\* The fallback chain for a struct whose discriminator annotation is d.
FollowsChain(schema, d, name) ==
    /\ d.name.some => name = d.name.v
    /\ (~d.name.some /\ NameAnnotsOf(schema) # <<>>) => name = NameAnnotsOf(schema)[1].s
    /\ (~d.name.some /\ NameAnnotsOf(schema) = <<>>) => name = schema.name
    /\ name \in {schema.name}
                \cup {NameAnnotsOf(schema)[i].s : i \in DOMAIN NameAnnotsOf(schema)}
                \cup (IF d.name.some THEN {d.name.v} ELSE {})

\* The discriminator annotation of a struct, or one that sets nothing.
DiscriminatorOf(schema) ==
    IF HasAnnot(schema.annots, "discriminator")
    THEN FindAnnot(schema.annots, "discriminator")
    ELSE DiscriminatorAnnot(None, None)

\* C12 as written: for every struct with a union the name returned by
\* read_discriminator follows the chain discriminator name, struct-level
\* name annotation, declared name.
C12_DiscriminatorName ==
    \A sid \in VisitedUnionStructs :
        FollowsChain(StructSchema(sid), DiscriminatorOf(StructSchema(sid)),
                     read_discriminator(StructSchema(sid)).name)

\* C12, amended: the chain holds for every struct with a union that carries
\* a discriminator annotation; without the annotation the returned name
\* is the empty default and no value name is set.
C12_DiscriminatorNameWhenAnnotated ==
    \A sid \in VisitedUnionStructs :
        IF HasAnnot(StructSchema(sid).annots, "discriminator")
        THEN FollowsChain(StructSchema(sid), DiscriminatorOf(StructSchema(sid)),
                          read_discriminator(StructSchema(sid)).name)
        ELSE read_discriminator(StructSchema(sid)) = DefaultDiscriminatorOptions

\* U, whose discriminator sets no name and which carries a name annotation,
\* has been added: its declarations were made under the wrapper name w.
C12_Witness ==
    /\ last.op = "add"
    /\ last.sid = "U"
    /\ last.ok
    /\ cfg.discAnn = <<NameAnnot(<<"w">>), DiscriminatorAnnot(None, None)>>
    /\ read_discriminator(USchema).name = <<"w">>
    /\ \E i \in DOMAIN ctx.items : ctx.items[i].by = IdentOf("U")

\* The names of the fields of an interface.
FieldNames(item) == {item.fields[k].name : k \in DOMAIN item.fields}

\* C13: the declarations of a struct with a union follow the named/flat
\* distinction of serialization: with a discriminator annotation each
\* variant interface holds the union under the resolved discriminator name
\* and not the variant's key beside the non-union fields; without one the
\* variant's key is a field beside the non-union fields; the key is
\* valueName when the discriminator sets it.
C13_UnionShapeAsSerialized ==
    mode = "gen" =>
    \A sid \in UnionStructs : \A i \in DOMAIN ctx.items :
        LET schema == StructSchema(sid)
            it == ctx.items[i]
        IN  (it.item = "Interface" /\ it.by = IdentOf(sid) /\ it.ident # it.by)
            => \E f \in DOMAIN get_union_fields(schema) :
                  LET key == VariantKey(schema, get_union_fields(schema)[f])
                  IN  /\ it.ident = from_union_variant(schema, get_union_fields(schema)[f]).v
                      /\ IF IsNamedUnion(schema)
                         THEN /\ read_discriminator(schema).name \in FieldNames(it)
                              /\ key \notin FieldNames(it)
                         ELSE key \in FieldNames(it)

(***************************************************************************)
(* Termination of add                                                      *)
(***************************************************************************)
\* The nodes of the schema graph: the structs, the enum E and the two data
\* aliases.
GraphNodes == StructIds \cup {"E", "HexData", "Base64Data"}

\* The interface declared for a struct without a union.
InterfaceOf(sid) ==
    LET ident == IdentOf(sid)
    IN  CHOOSE it \in {ctx.items[i] : i \in DOMAIN ctx.items} :
            it.item = "Interface" /\ it.ident = ident /\ it.by = ident

Declared(sid) ==
    LET ident == IdentOf(sid)
    IN  \E i \in DOMAIN ctx.items :
            /\ ctx.items[i].item = "Interface"
            /\ ctx.items[i].ident = ident
            /\ ctx.items[i].by = ident

\* The structs whose graph is cyclic and free of errors.
CyclicRoots == {"Node", "Ping"}

\* C14: add returns on every schema graph, cyclic ones included: every
\* identity is inserted into visited once, and there are no more of them
\* than nodes in the graph, so the fields of a node are traversed at most
\* once in a session; an add of a self-referential or
\* mutually recursive struct returns Ok, and the reference back to the
\* struct being visited is its identity.
C14_AddTerminates ==
    mode = "gen" =>
    /\ \A i, j \in DOMAIN ctx.seen : ctx.seen[i] = ctx.seen[j] => i = j
    /\ {ctx.seen[i] : i \in DOMAIN ctx.seen} = ctx.visited
    /\ Len(ctx.seen) <= Cardinality(GraphNodes)
    /\ (last.op = "add" /\ last.sid \in CyclicRoots)
       => /\ last.ok
          /\ Declared(last.sid)
    /\ Declared("Node")
       => \E k \in DOMAIN InterfaceOf("Node").fields :
             InterfaceOf("Node").fields[k].type = IdentOf("Node")
    /\ Declared("Ping")
       => /\ Declared("Pong")
          /\ InterfaceOf("Ping").fields[1].type = IdentOf("Pong")
          /\ InterfaceOf("Pong").fields[1].type = IdentOf("Ping")

\* Ping added to a new session: Pong is visited inside the visit of Ping
\* and its reference back to Ping returns at once.
C14_Witness ==
    /\ last.op = "add"
    /\ last.n = 1
    /\ last.sid = "Ping"
    /\ last.ok
    /\ ctx.seen = <<IdentOf("Ping"), IdentOf("Pong")>>
    /\ Len(ctx.items) = 2
    /\ ctx.items[1].ident = IdentOf("Pong")
    /\ ctx.items[2].ident = IdentOf("Ping")

(***************************************************************************)
(* Properties of the enum alias                                            *)
(***************************************************************************)
\* A TypeScript string-literal type: the string between double quotes.
StringLiteral(n) == <<"\"">> \o n \o <<"\"">>

\* The members of the alias of an enum, by the claim: the resolved names
\* in declaration order, then number under UseNumber.
RECURSIVE LiteralMembers(_, _)
LiteralMembers(enumerants, i) ==
    IF i > Len(enumerants) THEN <<>>
    ELSE <<Named(enumerants[i].name, enumerants[i].annots,
                 enumerant_value(enumerants[i]))>>
         \o LiteralMembers(enumerants, i + 1)

RECURSIVE RenderedMembers(_, _)
RenderedMembers(enumerants, i) ==
    IF i > Len(enumerants) THEN <<>>
    ELSE (IF i > 1 THEN <<" ", "|", " ">> ELSE <<>>)
         \o StringLiteral(enumerant_value(enumerants[i]))
         \o RenderedMembers(enumerants, i + 1)

\* The alias of enum E holds one literal per enumerant, carrying its
\* resolved name, in declaration order, and then number exactly under
\* UseNumber; there is one such alias when E is visited.
EnumAliasMembers ==
    LET schema == EnumSchema("E")
        ident == from_enum(schema).v
        own == OwnItems(ctx, ident)
    IN  /\ ident \in ctx.visited => Len(own) = 1
        /\ \A i \in DOMAIN own :
              /\ own[i].item = "Alias"
              /\ own[i].ident = ident
              /\ own[i].value.k = "Union"
              /\ Len(own[i].value.vs) = Len(schema.enumerants)
                    + (IF opts.on_enumerant_not_in_schema = "UseNumber" THEN 1 ELSE 0)
              /\ \A k \in DOMAIN schema.enumerants :
                    /\ own[i].value.vs[k].k = "Literal"
                    /\ own[i].value.vs[k].n = enumerant_value(schema.enumerants[k])
                    /\ LiteralMembers(schema.enumerants, 1)[k]
              /\ opts.on_enumerant_not_in_schema = "UseNumber"
                 => own[i].value.vs[Len(own[i].value.vs)] = IdNumber

\* C15: the alias emitted for an enum has one string-literal type per
\* enumerant, of its resolved name, in declaration order, followed by
\* number if and only if the policy is UseNumber.
C15_EnumAlias ==
    mode = "gen" =>
    /\ EnumAliasMembers
    /\ \A i \in DOMAIN ctx.items :
          ctx.items[i].by = from_enum(EnumSchema("E")).v
          => Display(ctx.items[i].value)
             = RenderedMembers(EnumSchema("E").enumerants, 1)
               \o (IF opts.on_enumerant_not_in_schema = "UseNumber"
                   THEN <<" ", "|", " ">> \o Display(IdNumber) ELSE <<>>)

(***************************************************************************)
(* Properties of repeated annotations                                      *)
(***************************************************************************)
\* The first or the last element of a non-empty sequence.
Occurrence(seq, first) == IF first THEN seq[1] ELSE seq[Len(seq)]

\* The annotation lists the visits of the session have read: those of
\* Leaf.a, U.variant and E.bar, and of Leaf.d.
AnnotationLists ==
    (IF ctx.visited \cap NameAnnNodes # {} THEN {cfg.nameAnn} ELSE {})
    \cup (IF IdentOf("Leaf") \in ctx.visited THEN {cfg.dataAnn} ELSE {})

\* read_annots of a list takes the first (or the last) name annotation and
\* the first (or the last) of the hex and base64 annotations, returns Ok,
\* and gives what it gives for the list without the annotations of
\* unknown ids.
Resolves(list, first) ==
    LET names == SelectSeq(list, LAMBDA a : a.id = "name")
        formats == SelectSeq(list, LAMBDA a : a.id \in {"hex", "base64"})
        known == SelectSeq(list, LAMBDA a : a.id # "other")
        out == read_annots(list)
    IN  /\ out.name = IF names = <<>> THEN None ELSE Some(Occurrence(names, first).s)
        /\ out.data_format =
              IF formats = <<>> THEN None
              ELSE Some(IF Occurrence(formats, first).id = "hex" THEN "Hex" ELSE "Base64")
        /\ read_annots(known) = out

\* What the declaration of Leaf shows of the resolution: the key of a and
\* the alias of d.
LeafDeclaredWith(first) ==
    Declared("Leaf") =>
        LET it == InterfaceOf("Leaf")
            names == SelectSeq(cfg.nameAnn, LAMBDA a : a.id = "name")
            formats == SelectSeq(cfg.dataAnn, LAMBDA a : a.id \in {"hex", "base64"})
        IN  /\ names # <<>>
               => \E k \in DOMAIN it.fields :
                     /\ it.fields[k].name = Occurrence(names, first).s
                     /\ it.fields[k].type = IdNumber
            /\ formats # <<>>
               => \E k \in DOMAIN it.fields :
                     /\ it.fields[k].name = <<"d">>
                     /\ it.fields[k].type = IF Occurrence(formats, first).id = "hex"
                                            THEN IdHexData ELSE IdBase64Data

\* C16 as written: of a repeated kind the first occurrence is taken, and
\* unknown annotations neither fail nor change the result.
C16_FirstOccurrenceWins ==
    mode = "gen" =>
    /\ \A list \in AnnotationLists : Resolves(list, TRUE)
    /\ LeafDeclaredWith(TRUE)

\* C16, amended: of a repeated kind the last occurrence is taken: the last
\* name annotation, and the last of the hex and base64 annotations; unknown
\* annotations neither fail nor change the result.
C16_LastOccurrenceWins ==
    mode = "gen" =>
    /\ \A list \in AnnotationLists : Resolves(list, FALSE)
    /\ LeafDeclaredWith(FALSE)

\* Leaf, whose field d carries hex and then base64, has been added: d is
\* declared as Base64Data.
C16_Witness ==
    /\ last.op = "add"
    /\ last.sid = "Leaf"
    /\ last.ok
    /\ cfg.dataAnn = <<HexAnnot, Base64Annot>>
    /\ IdBase64Data \in ctx.visited
    /\ IdHexData \notin ctx.visited

\* Leaf, whose field a carries two name annotations, has been added: a is
\* declared under the second.
C16_WitnessName ==
    /\ last.op = "add"
    /\ last.sid = "Leaf"
    /\ last.ok
    /\ cfg.nameAnn = <<NameAnnot(<<"x">>), NameAnnot(<<"y">>)>>
    /\ \E k \in DOMAIN InterfaceOf("Leaf").fields :
          InterfaceOf("Leaf").fields[k].name = <<"y">>

(***************************************************************************)
(* The session after an error                                              *)
(***************************************************************************)
\* The struct and enum identities of visited with no declaration of their
\* name in items.
Undeclared(c) ==
    {ident \in c.visited :
        /\ ident.k \in {"Struct", "Enum"}
        /\ ~\E i \in DOMAIN c.items : Display(c.items[i].ident) = Display(ident)}

\* C17: between the calls of add, also after one that returned an error,
\* every struct or enum identity of visited has a declaration of its name
\* in items, and so no add is answered from visited for an identity that
\* was never declared.
C17_VisitedDeclared ==
    mode = "gen" =>
    /\ Undeclared(ctx) = {}
    /\ \A sid \in GenRoots :
          (HasIdent(sid) /\ IdentOf(sid) \in ctx.visited /\ add(ctx, sid).r.ok)
          => \E i \in DOMAIN ctx.items : ctx.items[i].ident = IdentOf(sid)

====
